---- MODULE Spec2Model ----
(***************************************************************************)
(* Warranty-number lifecycle of the warranty registration backend:         *)
(* the WarrantyNumber collection (the pool), the WarrantyRegistration      *)
(* collection (the ledger) and the request handlers that bind and release  *)
(* a warranty number.  Every handler is an async function; its awaited     *)
(* database calls are the points where other requests interleave, so each  *)
(* awaited call is one atomic step of the handler that issued it.          *)
(***************************************************************************)
EXTENDS Integers, FiniteSets, Sequences, TLC

\* ------------------------------------------------------------------ bounds
\* Registrations ever created (ObjectIds are never reused).
MaxIds == 2
\* Values the wall clock takes.
MaxClock == 2
\* Rows of an uploaded CSV file.
MaxRows == 2

\* ------------------------------------------------------------- input sets
Codes == {"W1", "W2"}
Products == {"P1", "P2"}
ProductNames == {"N1", "N2"}
\* The product name the pool is stocked with where names do not matter.
StockName == "N1"
Procs == {"h1", "h2"}
SeqProc == "h1"
Ids == 1..MaxIds

\* null / undefined of a pool record's usedAt and registrationId
Null == 0
\* findOne / findById returning null
NoCode == ""

\* req.params.id that is no ObjectId
MalformedId == -1

\* ------------------------------------------------------------------ dates
Date(y, m, d) == [y |-> y, m |-> m, d |-> d]

\* no date: the field is absent
NoDate == Date(0, 0, 0)

IsLeapYear(y) == (y % 4 = 0 /\ y % 100 # 0) \/ y % 400 = 0

DaysInMonth(y, m) ==
    IF m = 2 THEN (IF IsLeapYear(y) THEN 29 ELSE 28)
    ELSE IF m \in {4, 6, 9, 11} THEN 30 ELSE 31

\* date.setFullYear(year): month and day are kept, and a day the month does not
\* have in that year runs over into the next month.
SetFullYear(date, year) ==
    IF date.d <= DaysInMonth(year, date.m)
    THEN Date(year, date.m, date.d)
    ELSE Date(year, date.m + 1, date.d - DaysInMonth(year, date.m))

\* The day before and the day after a calendar date.
PrevDay(date) ==
    IF date.d > 1 THEN Date(date.y, date.m, date.d - 1)
    ELSE IF date.m > 1 THEN Date(date.y, date.m - 1, DaysInMonth(date.y, date.m - 1))
    ELSE Date(date.y - 1, 12, 31)

NextDay(date) ==
    IF date.d < DaysInMonth(date.y, date.m) THEN Date(date.y, date.m, date.d + 1)
    ELSE IF date.m < 12 THEN Date(date.y, date.m + 1, 1)
    ELSE Date(date.y + 1, 1, 1)

\* The time zone the server process runs in.  A date is the instant 00:00 UTC of
\* that day (new Date('2024-03-15')); getFullYear and setFullYear work on the
\* server's local time, which at that instant is still the day before in a zone
\* west of UTC.
Zones == {"UTC", "America/Toronto"}

\* The local calendar day of the instant 00:00 UTC of date.
ToLocal(date, z) == IF z = "UTC" THEN date ELSE PrevDay(date)

\* The UTC calendar day of a local instant with the time of day ToLocal left it.
FromLocal(date, z) == IF z = "UTC" THEN date ELSE NextDay(date)

\* const warrantyEndDate = new Date(purchaseDate);
\* warrantyEndDate.setFullYear(warrantyEndDate.getFullYear() + 1)
AddOneYearIn(date, z) ==
    FromLocal(SetFullYear(ToLocal(date, z), ToLocal(date, z).y + 1), z)

PurchaseDates == {Date(2023, 3, 15), Date(2024, 2, 29)}
\* Purchase dates around the leap day and the turn of the year.
LeapPurchaseDates ==
    {Date(2024, 3, 15), Date(2024, 2, 28), Date(2024, 2, 29), Date(2024, 3, 1),
     Date(2023, 12, 31), Date(2024, 1, 1)}
\* The purchase date of the registrations where dates do not matter.
StockDate == Date(2023, 3, 15)

\* ------------------------------------------------------------------ text
\* The characters of the strings that occur in documents and queries.
Characters(s) ==
    CASE s = "" -> <<>>
      [] s = "W1" -> <<"W", "1">>
      [] s = "W2" -> <<"W", "2">>
      [] s = "N1" -> <<"N", "1">>
      [] s = "N2" -> <<"N", "2">>
      [] s = "Al" -> <<"A", "l">>
      [] s = "Bo" -> <<"B", "o">>
      [] s = "Al Bo" -> <<"A", "l", " ", "B", "o">>
      [] s = "al@x" -> <<"a", "l", "@", "x">>
      [] s = "o1" -> <<"o", "1">>
      [] s = "Cy" -> <<"C", "y">>
      [] s = "Di" -> <<"D", "i">>
      [] s = "Cy Di" -> <<"C", "y", " ", "D", "i">>
      [] s = "cy@x" -> <<"c", "y", "@", "x">>
      [] s = "o2" -> <<"o", "2">>
      [] s = "al" -> <<"a", "l">>
      [] s = "AL" -> <<"A", "L">>
      [] s = "di" -> <<"d", "i">>
      [] s = "w2" -> <<"w", "2">>
      [] s = "@" -> <<"@">>
      [] s = "zz" -> <<"z", "z">>

\* String.prototype.toLowerCase on one character
ToLowerCase(c) ==
    CASE c = "A" -> "a" [] c = "B" -> "b" [] c = "C" -> "c" [] c = "D" -> "d"
      [] c = "L" -> "l" [] c = "N" -> "n" [] c = "W" -> "w" [] OTHER -> c

\* new RegExp(pattern, 'i').test(text) for a pattern of literal characters: the
\* pattern occurs somewhere in the text, letter case ignored.
RegExpTest(pattern, text) ==
    LET pat == Characters(pattern)
        txt == Characters(text)
    IN \E k \in 0..(Len(txt) - Len(pat)) :
          \A i \in 1..Len(pat) : ToLowerCase(pat[i]) = ToLowerCase(txt[k + i])

VARIABLES
    pool,                \* WarrantyNumber collection: warrantyNumber -> document
    ledger,              \* WarrantyRegistration collection: _id -> document
    nextId,              \* next ObjectId the ledger hands out
    now,                 \* the wall clock read by new Date()
    pc,                  \* per handler: the awaited call it is suspended at
    req,                 \* per handler: req.body / req.params of the request it serves
    resp,                \* per handler: the response it sent last
    validWarrantyNumber, \* per handler: register's local validWarrantyNumber._id
    registration,        \* per handler: the local registration document
    upload,              \* per handler: upload's locals results, successCount, errors
    reads,               \* per handler: what the reads of a read-only handler returned
    zone,                \* the time zone the server process was started in
    shopify,             \* the emails that have a customer in the Shopify directory
    svc                  \* the marketing-sync call in progress: its position, calls, result

vars ==
    <<pool, ledger, nextId, now, pc, req, resp, validWarrantyNumber, registration, upload, reads,
      zone, shopify, svc>>

\* The one-year addition of register and update on this server.
AddOneYear(date) == AddOneYearIn(date, zone)

\* ------------------------------------------------------------- documents
\* WarrantyNumberSchema with its defaults (isUsed false, no usedAt, no link).
NewWarrantyNumber(productId, productName) ==
    [productId |-> productId, productName |-> productName,
     isUsed |-> FALSE, usedAt |-> Null, registrationId |-> Null]

\* firstName, lastName, fullName, email, product and orderId of a register request
Customer(firstName, lastName, fullName, email, product, orderId) ==
    [firstName |-> firstName, lastName |-> lastName, fullName |-> fullName,
     email |-> email, product |-> product, orderId |-> orderId]

NoCustomer == Customer("", "", "", "", "", "")

StockCustomer == Customer("Al", "Bo", "Al Bo", "al@x", "N1", "o1")

\* The document register passes to WarrantyRegistration.create.
NewRegistration(warrantyNumber, productId, purchaseDate, customer) ==
    [firstName |-> customer.firstName, lastName |-> customer.lastName,
     fullName |-> customer.fullName, email |-> customer.email,
     product |-> customer.product, orderId |-> customer.orderId,
     warrantyNumber |-> warrantyNumber, productId |-> productId,
     purchaseDate |-> purchaseDate, warrantyEndDate |-> AddOneYear(purchaseDate),
     status |-> "active", claimDate |-> Null, claimType |-> "", claimNotes |-> "",
     claimProcessedBy |-> ""]

NoRegistration == [id |-> Null, warrantyNumber |-> NoCode]

\* results = [], errors = [] and successCount = 0 of the upload handler
NoUpload == [results |-> <<>>, successCount |-> 0, errors |-> <<>>]

\* A service method that has not returned has no result.
NoResult == [raised |-> FALSE, success |-> FALSE, action |-> "none"]

\* No marketing-sync call is in progress.
NoService ==
    [op |-> "none", at |-> "idle", email |-> "", existingCustomer |-> FALSE,
     calls |-> <<>>, result |-> NoResult]

\* req.query of a request without a query string
NoQuery ==
    [page |-> 0, limit |-> 0, productId |-> "", isUsed |-> "undefined", status |-> "",
     email |-> "", warrantyNumber |-> "", orderId |-> "", name |-> "", search |-> ""]

\* No read of the handler has returned yet.
NoReads == <<>>

NoRequest ==
    [op |-> "none", warrantyNumber |-> NoCode, productId |-> "", purchaseDate |-> NoDate,
     customer |-> NoCustomer, complete |-> FALSE, id |-> Null, query |-> NoQuery]

\* ------------------------------------------------------------- responses
NoResponse ==
    [status |-> 0, body |-> "", registrationId |-> Null, freedWarrantyNumber |-> NoCode,
     successCount |-> 0, errors |-> <<>>, data |-> <<>>]

Response(status, body) ==
    [status |-> status, body |-> body, registrationId |-> Null, freedWarrantyNumber |-> NoCode,
     successCount |-> 0, errors |-> <<>>, data |-> <<>>]

InvalidWarrantyNumberResponse ==
    Response(400, "Invalid warranty number or product mismatch")

RegisteredResponse(id) ==
    [Response(200, "Warranty registered successfully") EXCEPT !.registrationId = id]

ServerErrorResponse(message) == Response(500, message)

RegistrationNotFoundResponse == Response(404, "Registration not found")

\* if (error.name === 'CastError')
InvalidRegistrationIdResponse == Response(400, "Invalid registration ID")

DeletedResponse(warrantyNumber) ==
    [Response(200, "Registration deleted successfully")
        EXCEPT !.freedWarrantyNumber = warrantyNumber]

UnlinkedResponse(warrantyNumber) ==
    [Response(200, "Warranty number unlinked successfully and registration removed")
        EXCEPT !.freedWarrantyNumber = warrantyNumber]

WarrantyNumberCreatedResponse == Response(200, "created")

WarrantyNumberExistsResponse == Response(400, "Warranty number already exists")

AllFieldsRequiredResponse == Response(400, "All fields are required")

NoFileUploadedResponse == Response(400, "No file uploaded")

\* {message: `Successfully imported ${successCount} warranty numbers`, errors}
UploadedResponse(successCount, errors) ==
    [Response(200, "Successfully imported")
        EXCEPT !.successCount = successCount, !.errors = errors]

\* ------------------------------------------------------- database calls
\* FindOneWarrantyNumber with the productId condition of the filter dropped.
FindOneWarrantyNumberAnyProduct(pl, warrantyNumber, productId) ==
    IF warrantyNumber \in DOMAIN pl /\ pl[warrantyNumber].isUsed = FALSE
    THEN warrantyNumber
    ELSE NoCode

\* WarrantyNumber.findOne({warrantyNumber, productId, isUsed: false})
FindOneWarrantyNumber(pl, warrantyNumber, productId) ==
    IF /\ warrantyNumber \in DOMAIN pl
       /\ pl[warrantyNumber].productId = productId
       /\ pl[warrantyNumber].isUsed = FALSE
    THEN warrantyNumber
    ELSE NoCode

\* WarrantyNumber.findByIdAndUpdate(_id, {isUsed: true, usedAt, registrationId})
MarkUsed(pl, warrantyNumber, id, t) ==
    IF warrantyNumber \in DOMAIN pl
    THEN [pl EXCEPT ![warrantyNumber] =
            [@ EXCEPT !.isUsed = TRUE, !.usedAt = t, !.registrationId = id]]
    ELSE pl

\* FreeWarrantyNumber with the update left out.
FreeWarrantyNumberSkipped(pl, warrantyNumber) == pl

\* FreeWarrantyNumber resetting isUsed alone.
FreeWarrantyNumberKeepsLink(pl, warrantyNumber) ==
    IF warrantyNumber \in DOMAIN pl
    THEN [pl EXCEPT ![warrantyNumber] = [@ EXCEPT !.isUsed = FALSE]]
    ELSE pl

\* FreeWarrantyNumber removing the record from the pool.
FreeWarrantyNumberRemovesRecord(pl, warrantyNumber) ==
    [c \in (DOMAIN pl) \ {warrantyNumber} |-> pl[c]]

\* FreeWarrantyNumber leaving usedAt as it was.
FreeWarrantyNumberKeepsUsedAt(pl, warrantyNumber) ==
    IF warrantyNumber \in DOMAIN pl
    THEN [pl EXCEPT ![warrantyNumber] =
            [@ EXCEPT !.isUsed = FALSE, !.registrationId = Null]]
    ELSE pl

\* WarrantyNumber.findOneAndUpdate({warrantyNumber}, {isUsed: false, usedAt: null,
\* registrationId: null})
FreeWarrantyNumber(pl, warrantyNumber) ==
    IF warrantyNumber \in DOMAIN pl
    THEN [pl EXCEPT ![warrantyNumber] =
            [@ EXCEPT !.isUsed = FALSE, !.usedAt = Null, !.registrationId = Null]]
    ELSE pl

\* The error a query by _id rejects with: an id that is no ObjectId cannot be cast.
CastIdError(id) == IF id = MalformedId THEN "CastError" ELSE "none"

\* WarrantyRegistration.findById(id)
FindRegistrationById(lg, id) ==
    IF id \in DOMAIN lg
    THEN [id |-> id, warrantyNumber |-> lg[id].warrantyNumber]
    ELSE NoRegistration

\* WarrantyRegistration.findByIdAndDelete(id)
DeleteRegistrationById(lg, id) ==
    [r \in (DOMAIN lg) \ {id} |-> lg[r]]

\* WarrantyRegistration.create(doc) with a fresh _id
CreateRegistration(lg, id, doc) ==
    [r \in (DOMAIN lg) \cup {id} |-> IF r = id THEN doc ELSE lg[r]]

\* CreateWarrantyNumberError without the unique index on warrantyNumber.
CreateWarrantyNumberErrorNoUniqueIndex(pl, warrantyNumber, productId, productName) ==
    IF warrantyNumber = "" \/ productId = "" \/ productName = ""
    THEN "ValidationError"
    ELSE "none"

\* The error WarrantyNumber.create(doc) rejects with: the schema's required strings
\* are validated before the insert, then the unique index on warrantyNumber
\* rejects a duplicate with code 11000.
CreateWarrantyNumberError(pl, warrantyNumber, productId, productName) ==
    IF warrantyNumber = "" \/ productId = "" \/ productName = ""
    THEN "ValidationError"
    ELSE IF warrantyNumber \in DOMAIN pl THEN "E11000" ELSE "none"

\* WarrantyNumber.create(doc) when it resolves
CreateWarrantyNumber(pl, warrantyNumber, productId, productName) ==
    [c \in (DOMAIN pl) \cup {warrantyNumber} |->
        IF c = warrantyNumber THEN NewWarrantyNumber(productId, productName) ELSE pl[c]]

\* ------------------------------------------------------------------ Init
Init ==
    /\ pool = <<>>
    /\ ledger = <<>>
    /\ nextId = 1
    /\ now = 1
    /\ pc = [p \in Procs |-> "idle"]
    /\ req = [p \in Procs |-> NoRequest]
    /\ resp = [p \in Procs |-> NoResponse]
    /\ validWarrantyNumber = [p \in Procs |-> NoCode]
    /\ registration = [p \in Procs |-> NoRegistration]
    /\ upload = [p \in Procs |-> NoUpload]
    /\ reads = [p \in Procs |-> NoReads]
    /\ zone = "UTC"
    /\ shopify = {}
    /\ svc = NoService

\* The handler p returns: its response is sent and its locals are gone.
Respond(p, response) ==
    /\ pc' = [pc EXCEPT ![p] = "idle"]
    /\ resp' = [resp EXCEPT ![p] = response]
    /\ req' = [req EXCEPT ![p] = NoRequest]
    /\ validWarrantyNumber' = [validWarrantyNumber EXCEPT ![p] = NoCode]
    /\ registration' = [registration EXCEPT ![p] = NoRegistration]
    /\ upload' = [upload EXCEPT ![p] = NoUpload]
    /\ reads' = [reads EXCEPT ![p] = NoReads]

\* A request reaches handler p, which runs up to its first awaited call.
Accept(p, request, at) ==
    /\ pc[p] = "idle"
    /\ pc' = [pc EXCEPT ![p] = at]
    /\ req' = [req EXCEPT ![p] = request]
    /\ resp' = [resp EXCEPT ![p] = NoResponse]
    /\ UNCHANGED <<pool, ledger, nextId, now, zone, shopify, svc, validWarrantyNumber,
                   registration, upload,
                   reads>>

\* Time passes.
Tick ==
    /\ now < MaxClock
    /\ now' = now + 1
    /\ UNCHANGED <<pool, ledger, nextId, pc, req, resp, validWarrantyNumber, registration,
                   upload, reads, zone, shopify, svc>>

\* ------------------------------------------- POST /api/admin/warranty-numbers
InsertWarrantyNumberRun(pl, warrantyNumber, productId, productName) ==
    IF warrantyNumber = "" \/ productId = "" \/ productName = ""
    THEN [pool |-> pl, resp |-> AllFieldsRequiredResponse]
    ELSE IF CreateWarrantyNumberError(pl, warrantyNumber, productId, productName)
                = "E11000"
         THEN [pool |-> pl, resp |-> WarrantyNumberExistsResponse]
         ELSE [pool |-> CreateWarrantyNumber(pl, warrantyNumber, productId, productName),
               resp |-> WarrantyNumberCreatedResponse]

\* The handler has one awaited call, so the request is served in one step.
InsertWarrantyNumber(p, warrantyNumber, productId, productName) ==
    /\ pc[p] = "idle"
    /\ LET run == InsertWarrantyNumberRun(pool, warrantyNumber, productId, productName)
       IN /\ resp' = [resp EXCEPT ![p] = run.resp]
          /\ pool' = run.pool
    /\ UNCHANGED <<ledger, nextId, now, zone, shopify, svc, pc, req, validWarrantyNumber,
                   registration,
                   upload, reads>>

\* ------------------------------- POST /api/admin/warranty-numbers/upload
\* A cell of the uploaded CSV file: text, preceded by blanks when pad holds.
Cell(text, pad) == [text |-> text, pad |-> pad]

\* A string in a JavaScript condition: true unless it is empty.
Truthy(cell) == cell.pad \/ cell.text # ""

\* String.prototype.trim
Trim(cell) == cell.text

Row(warrantyNumber, productId, productName) ==
    [warrantyNumber |-> warrantyNumber, productId |-> productId,
     productName |-> productName]

\* if (data.warrantyNumber && data.productId && data.productName)
RowComplete(data) ==
    Truthy(data.warrantyNumber) /\ Truthy(data.productId) /\ Truthy(data.productName)

\* The 'data' callback over the whole file: complete rows are kept, trimmed.
ParseRows(rows) ==
    LET kept == SelectSeq(rows, RowComplete)
    IN [i \in 1..Len(kept) |->
          Row(Trim(kept[i].warrantyNumber), Trim(kept[i].productId),
              Trim(kept[i].productName))]

\* `Warranty number ${item.warrantyNumber} already exists` for code 11000,
\* `Error with ${item.warrantyNumber}: ${error.message}` otherwise
UploadError(item, error) ==
    [warrantyNumber |-> item.warrantyNumber,
     message |-> IF error = "E11000" THEN "already exists" ELSE "Error with"]

\* One turn of the loop over results: create the item, count it or note its error.
UploadCreateItem(pl, up) ==
    LET item == Head(up.results)
        error == CreateWarrantyNumberError(pl, item.warrantyNumber, item.productId,
                                           item.productName)
    IN IF error = "none"
       THEN [pool |-> CreateWarrantyNumber(pl, item.warrantyNumber, item.productId,
                                           item.productName),
             upload |-> [up EXCEPT !.results = Tail(@), !.successCount = @ + 1]]
       ELSE [pool |-> pl,
             upload |-> [up EXCEPT !.results = Tail(@),
                                   !.errors = Append(@, UploadError(item, error))]]

RECURSIVE UploadLoop(_, _)
UploadLoop(pl, up) ==
    IF up.results = <<>>
    THEN [pool |-> pl, resp |-> UploadedResponse(up.successCount, up.errors)]
    ELSE LET turn == UploadCreateItem(pl, up)
         IN UploadLoop(turn.pool, turn.upload)

\* The upload handler run to its response with no other request in between.
UploadRun(pl, rows) == UploadLoop(pl, [NoUpload EXCEPT !.results = ParseRows(rows)])

\* if (!req.file)
UploadWithoutFile(p) ==
    /\ pc[p] = "idle"
    /\ resp' = [resp EXCEPT ![p] = NoFileUploadedResponse]
    /\ UNCHANGED <<pool, ledger, nextId, now, zone, shopify, svc, pc, req,
                   validWarrantyNumber, registration, upload, reads>>

\* The file is read and parsed; the handler goes on in the 'end' callback.
UploadStart(p, rows) ==
    /\ pc[p] = "idle"
    /\ pc' = [pc EXCEPT ![p] = "upl_create"]
    /\ req' = [req EXCEPT ![p] = [NoRequest EXCEPT !.op = "upload"]]
    /\ resp' = [resp EXCEPT ![p] = NoResponse]
    /\ upload' = [upload EXCEPT ![p] = [NoUpload EXCEPT !.results = ParseRows(rows)]]
    /\ UNCHANGED <<pool, ledger, nextId, now, zone, shopify, svc, validWarrantyNumber,
                   registration, reads>>

\* await WarrantyNumber.create(item) for the next item; after the last item (or
\* with no item at all) the response is sent.
UploadCreate(p) ==
    /\ pc[p] = "upl_create"
    /\ IF upload[p].results = <<>>
       THEN /\ Respond(p, UploadedResponse(upload[p].successCount, upload[p].errors))
            /\ pool' = pool
       ELSE LET turn == UploadCreateItem(pool, upload[p])
            IN /\ pool' = turn.pool
               /\ IF turn.upload.results = <<>>
                  THEN Respond(p, UploadedResponse(turn.upload.successCount,
                                                   turn.upload.errors))
                  ELSE /\ upload' = [upload EXCEPT ![p] = turn.upload]
                       /\ UNCHANGED <<pc, req, resp, validWarrantyNumber, registration, reads>>
    /\ UNCHANGED <<ledger, nextId, now, zone, shopify, svc>>

\* ------------------------------------------------------ POST /api/register
RegisterStart(p, warrantyNumber, productId, purchaseDate, customer, complete) ==
    Accept(p, [NoRequest EXCEPT !.op = "register", !.warrantyNumber = warrantyNumber,
                                !.productId = productId, !.purchaseDate = purchaseDate,
                                !.customer = customer, !.complete = complete],
           "reg_find")

\* RegisterPrecondition telling a consumed warranty number from an unknown one.
RegisterPreconditionLeaky(pl, warrantyNumber, productId) ==
    IF FindOneWarrantyNumber(pl, warrantyNumber, productId) # NoCode
    THEN NoResponse
    ELSE IF warrantyNumber \in DOMAIN pl /\ pl[warrantyNumber].isUsed
    THEN Response(400, "Warranty number already registered")
    ELSE InvalidWarrantyNumberResponse

\* The response of the !validWarrantyNumber early return for what findOne gave
\* (NoResponse: no early return, the handler goes on).
RegisterPrecondition(pl, warrantyNumber, productId) ==
    IF FindOneWarrantyNumber(pl, warrantyNumber, productId) = NoCode
    THEN InvalidWarrantyNumberResponse
    ELSE NoResponse

\* await WarrantyNumber.findOne(...), then the !validWarrantyNumber early return
RegisterFind(p) ==
    /\ pc[p] = "reg_find"
    /\ LET early == RegisterPrecondition(pool, req[p].warrantyNumber, req[p].productId)
       IN IF early # NoResponse
          THEN Respond(p, early)
          ELSE /\ pc' = [pc EXCEPT ![p] = "reg_create"]
               /\ validWarrantyNumber' = [validWarrantyNumber EXCEPT ![p] =
                     FindOneWarrantyNumber(pool, req[p].warrantyNumber, req[p].productId)]
               /\ UNCHANGED <<req, resp, registration, upload, reads>>
    /\ UNCHANGED <<pool, ledger, nextId, now, zone, shopify, svc>>

\* RegisterCreate storing the document whether or not its required fields are there.
RegisterCreateStoresIncomplete(p) ==
    /\ pc[p] = "reg_create"
    /\ nextId <= MaxIds
    /\ ledger' = CreateRegistration(ledger, nextId,
                    NewRegistration(req[p].warrantyNumber, req[p].productId,
                                    req[p].purchaseDate, req[p].customer))
    /\ nextId' = nextId + 1
    /\ IF ~req[p].complete
       THEN Respond(p, ServerErrorResponse("WarrantyRegistration validation failed"))
       ELSE /\ registration' = [registration EXCEPT ![p] =
                                  [id |-> nextId, warrantyNumber |-> req[p].warrantyNumber]]
            /\ pc' = [pc EXCEPT ![p] = "reg_mark"]
            /\ UNCHANGED <<req, resp, validWarrantyNumber, upload, reads>>
    /\ UNCHANGED <<pool, now, zone, shopify, svc>>

\* await WarrantyRegistration.create(...): the schema's required fields are validated
\* and a missing one throws into the catch block
RegisterCreate(p) ==
    /\ pc[p] = "reg_create"
    /\ IF ~req[p].complete
       THEN /\ Respond(p, ServerErrorResponse("WarrantyRegistration validation failed"))
            /\ UNCHANGED <<ledger, nextId>>
       ELSE /\ nextId <= MaxIds
            /\ ledger' = CreateRegistration(ledger, nextId,
                            NewRegistration(req[p].warrantyNumber, req[p].productId,
                                            req[p].purchaseDate, req[p].customer))
            /\ nextId' = nextId + 1
            /\ registration' = [registration EXCEPT ![p] =
                                  [id |-> nextId, warrantyNumber |-> req[p].warrantyNumber]]
            /\ pc' = [pc EXCEPT ![p] = "reg_mark"]
            /\ UNCHANGED <<req, resp, validWarrantyNumber, upload, reads>>
    /\ UNCHANGED <<pool, now, zone, shopify, svc>>

\* await WarrantyNumber.findByIdAndUpdate(...), then res.json(...)
RegisterMark(p) ==
    /\ pc[p] = "reg_mark"
    /\ pool' = MarkUsed(pool, validWarrantyNumber[p], registration[p].id, now)
    /\ Respond(p, RegisteredResponse(registration[p].id))
    /\ UNCHANGED <<ledger, nextId, now, zone, shopify, svc>>

\* ------------------------------------ DELETE /api/admin/registrations/:id
DeleteStart(p, id) ==
    Accept(p, [NoRequest EXCEPT !.op = "delete", !.id = id], "del_find")

DeleteFind(p) ==
    /\ pc[p] = "del_find"
    /\ LET found == FindRegistrationById(ledger, req[p].id)
       IN IF CastIdError(req[p].id) = "CastError"
          THEN Respond(p, InvalidRegistrationIdResponse)
          ELSE IF found = NoRegistration
          THEN Respond(p, RegistrationNotFoundResponse)
          ELSE /\ pc' = [pc EXCEPT ![p] = "del_free"]
               /\ registration' = [registration EXCEPT ![p] = found]
               /\ UNCHANGED <<req, resp, validWarrantyNumber, upload, reads>>
    /\ UNCHANGED <<pool, ledger, nextId, now, zone, shopify, svc>>

\* DeleteFree with the two calls in the inverse order: the registration is deleted
\* first and the warranty number is still to be freed.
DeleteFreeDeletesFirst(p) ==
    /\ pc[p] = "del_free"
    /\ ledger' = DeleteRegistrationById(ledger, req[p].id)
    /\ pc' = [pc EXCEPT ![p] = "del_delete"]
    /\ UNCHANGED <<pool, nextId, now, zone, shopify, svc, req, resp, validWarrantyNumber,
                   registration,
                   upload, reads>>

DeleteFree(p) ==
    /\ pc[p] = "del_free"
    /\ pool' = FreeWarrantyNumber(pool, registration[p].warrantyNumber)
    /\ pc' = [pc EXCEPT ![p] = "del_delete"]
    /\ UNCHANGED <<ledger, nextId, now, zone, shopify, svc, req, resp, validWarrantyNumber,
                   registration,
                   upload, reads>>

DeleteDelete(p) ==
    /\ pc[p] = "del_delete"
    /\ ledger' = DeleteRegistrationById(ledger, req[p].id)
    /\ Respond(p, DeletedResponse(registration[p].warrantyNumber))
    /\ UNCHANGED <<pool, nextId, now, zone, shopify, svc>>

\* ------------------------------- POST /api/admin/registrations/:id/unlink
UnlinkStart(p, id) ==
    Accept(p, [NoRequest EXCEPT !.op = "unlink", !.id = id], "unl_find")

UnlinkFind(p) ==
    /\ pc[p] = "unl_find"
    /\ LET found == FindRegistrationById(ledger, req[p].id)
       IN IF CastIdError(req[p].id) = "CastError"
          THEN Respond(p, InvalidRegistrationIdResponse)
          ELSE IF found = NoRegistration
          THEN Respond(p, RegistrationNotFoundResponse)
          ELSE /\ pc' = [pc EXCEPT ![p] = "unl_free"]
               /\ registration' = [registration EXCEPT ![p] = found]
               /\ UNCHANGED <<req, resp, validWarrantyNumber, upload, reads>>
    /\ UNCHANGED <<pool, ledger, nextId, now, zone, shopify, svc>>

UnlinkFree(p) ==
    /\ pc[p] = "unl_free"
    /\ pool' = FreeWarrantyNumber(pool, registration[p].warrantyNumber)
    /\ pc' = [pc EXCEPT ![p] = "unl_delete"]
    /\ UNCHANGED <<ledger, nextId, now, zone, shopify, svc, req, resp, validWarrantyNumber,
                   registration,
                   upload, reads>>

UnlinkDelete(p) ==
    /\ pc[p] = "unl_delete"
    /\ ledger' = DeleteRegistrationById(ledger, req[p].id)
    /\ Respond(p, UnlinkedResponse(registration[p].warrantyNumber))
    /\ UNCHANGED <<pool, nextId, now, zone, shopify, svc>>

\* --------------------------------------- PUT /api/admin/registrations/:id
StatusEnum == {"active", "expired", "claimed"}
ClaimTypeEnum == {"replacement", "repair", "refund", "technical"}

\* req.body with none of the fields the handler or the schema looks at; dollarSet
\* is the warrantyNumber of a "$set" operator document in the body.
NoPatch ==
    [warrantyNumber |-> NoCode, productId |-> "", purchaseDate |-> NoDate,
     warrantyEndDate |-> NoDate, status |-> "", claimDate |-> Null, claimType |-> "",
     claimNotes |-> "", claimProcessedBy |-> "", dollarSet |-> NoCode]

\* UpdateData without the stamp of the acting admin.
UpdateDataKeepsProcessedBy(body, admin, t) ==
    LET kept == [body EXCEPT !.warrantyNumber = NoCode]
        dated == IF kept.purchaseDate # NoDate
                 THEN [kept EXCEPT !.warrantyEndDate = AddOneYear(kept.purchaseDate)]
                 ELSE kept
    IN IF dated.status = "claimed"
       THEN [dated EXCEPT !.claimDate = IF @ # Null THEN @ ELSE t]
       ELSE dated

\* updateData as the handler passes it to findByIdAndUpdate: warrantyNumber deleted,
\* warrantyEndDate recomputed when purchaseDate is given, claimDate and
\* claimProcessedBy filled in when status is 'claimed'.
UpdateData(body, admin, t) ==
    LET kept == [body EXCEPT !.warrantyNumber = NoCode]
        dated == IF kept.purchaseDate # NoDate
                 THEN [kept EXCEPT !.warrantyEndDate = AddOneYear(kept.purchaseDate)]
                 ELSE kept
    IN IF dated.status = "claimed"
       THEN [dated EXCEPT !.claimDate = IF @ # Null THEN @ ELSE t,
                          !.claimProcessedBy = admin]
       ELSE dated

\* runValidators: the enum validators of status and claimType
UpdateValidationError(updateData) ==
    IF \/ updateData.status \notin StatusEnum \cup {""}
       \/ updateData.claimType \notin ClaimTypeEnum \cup {""}
    THEN "ValidationError"
    ELSE "none"

\* The document after the update: every top-level key of updateData is a $set of
\* that path, and the paths of a "$set" document in it are set as well.
SetPaths(doc, updateData) ==
    [firstName |-> doc.firstName, lastName |-> doc.lastName, fullName |-> doc.fullName,
     email |-> doc.email, product |-> doc.product, orderId |-> doc.orderId,
     warrantyNumber |-> IF updateData.warrantyNumber # NoCode THEN updateData.warrantyNumber
                        ELSE IF updateData.dollarSet # NoCode THEN updateData.dollarSet
                        ELSE doc.warrantyNumber,
     productId |-> IF updateData.productId # "" THEN updateData.productId
                   ELSE doc.productId,
     purchaseDate |-> IF updateData.purchaseDate # NoDate THEN updateData.purchaseDate
                      ELSE doc.purchaseDate,
     warrantyEndDate |-> IF updateData.warrantyEndDate # NoDate
                         THEN updateData.warrantyEndDate ELSE doc.warrantyEndDate,
     status |-> IF updateData.status # "" THEN updateData.status ELSE doc.status,
     claimDate |-> IF updateData.claimDate # Null THEN updateData.claimDate
                   ELSE doc.claimDate,
     claimType |-> IF updateData.claimType # "" THEN updateData.claimType
                   ELSE doc.claimType,
     claimNotes |-> IF updateData.claimNotes # "" THEN updateData.claimNotes
                    ELSE doc.claimNotes,
     claimProcessedBy |-> IF updateData.claimProcessedBy # ""
                          THEN updateData.claimProcessedBy ELSE doc.claimProcessedBy]

\* FindRegistrationByIdAndUpdate with the upsert option.
FindRegistrationByIdAndUpdateUpsert(lg, id, updateData) ==
    [r \in (DOMAIN lg) \cup {id} |->
        IF r # id THEN lg[r]
        ELSE IF id \in DOMAIN lg THEN SetPaths(lg[id], updateData)
        ELSE SetPaths(NewRegistration(NoCode, "", NoDate, NoCustomer), updateData)]

\* WarrantyRegistration.findByIdAndUpdate(id, updateData, {new: true, runValidators: true})
FindRegistrationByIdAndUpdate(lg, id, updateData) ==
    IF id \in DOMAIN lg
    THEN [lg EXCEPT ![id] = SetPaths(@, updateData)]
    ELSE lg

\* res.json(updatedRegistration)
UpdatedResponse(id) == [Response(200, "updated") EXCEPT !.registrationId = id]

ValidationErrorResponse == Response(400, "Validation failed")

\* The handler from its first line to its response.
UpdateRegistrationRun(lg, id, body, admin, t) ==
    LET updateData == UpdateData(body, admin, t)
    IN IF CastIdError(id) = "CastError"
       THEN [ledger |-> lg, resp |-> InvalidRegistrationIdResponse]
       ELSE IF UpdateValidationError(updateData) = "ValidationError"
       THEN [ledger |-> lg, resp |-> ValidationErrorResponse]
       ELSE [ledger |-> FindRegistrationByIdAndUpdate(lg, id, updateData),
             resp |-> IF id \in DOMAIN lg THEN UpdatedResponse(id)
                      ELSE RegistrationNotFoundResponse]

\* UpdateRegistration releasing the warranty number of a registration it sets to
\* 'expired'.
UpdateRegistrationFreesExpired(p, id, body, admin) ==
    /\ pc[p] = "idle"
    /\ LET run == UpdateRegistrationRun(ledger, id, body, admin, now)
       IN /\ ledger' = run.ledger
          /\ resp' = [resp EXCEPT ![p] = run.resp]
          /\ pool' = IF run.resp.status = 200 /\ body.status = "expired"
                     THEN FreeWarrantyNumber(pool, ledger[id].warrantyNumber)
                     ELSE pool
    /\ UNCHANGED <<nextId, now, zone, shopify, svc, pc, req, validWarrantyNumber, registration,
                   upload, reads>>

\* The handler has one awaited call, so the request is served in one step.
UpdateRegistration(p, id, body, admin) ==
    /\ pc[p] = "idle"
    /\ LET run == UpdateRegistrationRun(ledger, id, body, admin, now)
       IN /\ ledger' = run.ledger
          /\ resp' = [resp EXCEPT ![p] = run.resp]
    /\ UNCHANGED <<pool, nextId, now, zone, shopify, svc, pc, req, validWarrantyNumber,
                   registration,
                   upload, reads>>

\* ---------------------------------------------------- read-only handlers
\* parseInt(req.query.page) || 1
Page(query) == IF query.page = 0 THEN 1 ELSE query.page

\* parseInt(req.query.limit) || 50
Limit(query) == IF query.limit = 0 THEN 50 ELSE query.limit

\* pagination: { page, limit, total, pages: Math.ceil(total / limit) }
Pagination(query, total) ==
    [page |-> Page(query), limit |-> Limit(query), total |-> total,
     pages |-> (total + Limit(query) - 1) \div Limit(query)]

\* .skip(skip).limit(limit) on a sorted result
SkipLimit(sorted, query) ==
    LET skip == (Page(query) - 1) * Limit(query)
        last == IF skip + Limit(query) < Len(sorted) THEN skip + Limit(query)
                ELSE Len(sorted)
    IN SubSeq(sorted, skip + 1, last)

\* .sort({ createdAt: -1 }) on registrations: ObjectIds are handed out in the order
\* of creation, so the i-th document is the one with i - 1 newer ones.
NewestFirst(ids) ==
    [i \in 1..Cardinality(ids) |->
        CHOOSE r \in ids : Cardinality({ o \in ids : o > r }) = i - 1]

\* -------------------------------------------- GET /api/admin/warranty-numbers
\* The filter the listing builds from req.query.
ListFilter(query) ==
    [productId |-> query.productId,
     isUsed |-> IF query.isUsed = "undefined" THEN "any"
                ELSE IF query.isUsed = "true" THEN "used" ELSE "free"]

ListMatches(doc, filter) ==
    /\ filter.productId = "" \/ doc.productId = filter.productId
    /\ filter.isUsed = "any" \/ doc.isUsed = (filter.isUsed = "used")

\* WarrantyNumber.countDocuments(filter)
CountWarrantyNumbers(pl, query) ==
    Cardinality({ c \in DOMAIN pl : ListMatches(pl[c], ListFilter(query)) })

\* WarrantyNumber.find(filter).populate('registrationId', 'fullName email'): the
\* matching records, each with the name and email of the registration it refers
\* to. The records carry no creation time here and the limit is never below the
\* size of the pool: a page is the set of all matching records, or empty when
\* the records skipped are all there are.
FindWarrantyNumbers(pl, lg, query) ==
    IF (Page(query) - 1) * Limit(query) >= CountWarrantyNumbers(pl, query)
    THEN {}
    ELSE { [warrantyNumber |-> c, isUsed |-> pl[c].isUsed, productId |-> pl[c].productId,
            registrationId |-> IF pl[c].registrationId \in DOMAIN lg
                               THEN [id |-> pl[c].registrationId,
                                     fullName |-> lg[pl[c].registrationId].fullName,
                                     email |-> lg[pl[c].registrationId].email]
                               ELSE [id |-> Null, fullName |-> "", email |-> ""]] :
           c \in { k \in DOMAIN pl : ListMatches(pl[k], ListFilter(query)) } }

ListResponse(warrantyNumbers, query, total) ==
    [Response(200, "warrantyNumbers") EXCEPT
        !.data = [warrantyNumbers |-> warrantyNumbers,
                  pagination |-> Pagination(query, total)]]

ListStart(p, query) ==
    Accept(p, [NoRequest EXCEPT !.op = "list", !.query = query], "list_find")

\* await WarrantyNumber.find(filter)...
ListFind(p) ==
    /\ pc[p] = "list_find"
    /\ reads' = [reads EXCEPT ![p] = <<FindWarrantyNumbers(pool, ledger, req[p].query)>>]
    /\ pc' = [pc EXCEPT ![p] = "list_count"]
    /\ UNCHANGED <<pool, ledger, nextId, now, zone, shopify, svc, req, resp, validWarrantyNumber,
                   registration, upload>>

\* await WarrantyNumber.countDocuments(filter), then res.json(...)
ListCount(p) ==
    /\ pc[p] = "list_count"
    /\ Respond(p, ListResponse(reads[p][1], req[p].query,
                               CountWarrantyNumbers(pool, req[p].query)))
    /\ UNCHANGED <<pool, ledger, nextId, now, zone, shopify, svc>>

\* ---------------------------------------------- GET /api/admin/registrations
NameFields == {"fullName", "firstName", "lastName"}

SearchFields ==
    {"email", "fullName", "firstName", "lastName", "warrantyNumber", "orderId", "product"}

\* The filter the search builds from req.query: each assignment to filter.$or
\* replaces the one before it.
SearchFilter(query) ==
    LET nameOr == IF query.name # "" THEN { <<f, query.name>> : f \in NameFields } ELSE {}
        searchOr == IF query.search # ""
                    THEN { <<f, query.search>> : f \in SearchFields } ELSE nameOr
    IN [productId |-> query.productId, status |-> query.status, email |-> query.email,
        warrantyNumber |-> query.warrantyNumber, orderId |-> query.orderId,
        or |-> searchOr]

\* A registration document against the filter, as MongoDB evaluates it.
SearchMatches(doc, filter) ==
    /\ filter.productId = "" \/ doc.productId = filter.productId
    /\ filter.status = "" \/ doc.status = filter.status
    /\ filter.email = "" \/ RegExpTest(filter.email, doc.email)
    /\ filter.warrantyNumber = "" \/ RegExpTest(filter.warrantyNumber, doc.warrantyNumber)
    /\ filter.orderId = "" \/ RegExpTest(filter.orderId, doc.orderId)
    /\ filter.or = {} \/ \E clause \in filter.or : RegExpTest(clause[2], doc[clause[1]])

\* The documents of the ids, in their order.
Documents(lg, ids) == [i \in 1..Len(ids) |-> [id |-> ids[i], doc |-> lg[ids[i]]]]

\* WarrantyRegistration.find(filter).skip(skip).limit(limit).sort({ createdAt: -1 })
FindRegistrations(lg, query) ==
    Documents(lg, SkipLimit(NewestFirst({ r \in DOMAIN lg :
                                            SearchMatches(lg[r], SearchFilter(query)) }),
                            query))

\* WarrantyRegistration.countDocuments(filter)
CountRegistrations(lg, query) ==
    Cardinality({ r \in DOMAIN lg : SearchMatches(lg[r], SearchFilter(query)) })

SearchResponse(registrations, query, total) ==
    [Response(200, "registrations") EXCEPT
        !.data = [registrations |-> registrations,
                  pagination |-> Pagination(query, total)]]

SearchStart(p, query) ==
    Accept(p, [NoRequest EXCEPT !.op = "search", !.query = query], "search_find")

\* await WarrantyRegistration.find(filter)...
SearchFind(p) ==
    /\ pc[p] = "search_find"
    /\ reads' = [reads EXCEPT ![p] = <<FindRegistrations(ledger, req[p].query)>>]
    /\ pc' = [pc EXCEPT ![p] = "search_count"]
    /\ UNCHANGED <<pool, ledger, nextId, now, zone, shopify, svc, req, resp, validWarrantyNumber,
                   registration, upload>>

\* await WarrantyRegistration.countDocuments(filter), then res.json(...)
SearchCount(p) ==
    /\ pc[p] = "search_count"
    /\ Respond(p, SearchResponse(reads[p][1], req[p].query,
                                 CountRegistrations(ledger, req[p].query)))
    /\ UNCHANGED <<pool, ledger, nextId, now, zone, shopify, svc>>

\* The search run to its response with no other request in between.
SearchRun(lg, query) ==
    SearchResponse(FindRegistrations(lg, query), query, CountRegistrations(lg, query))

\* ------------------------------------------------------ GET /api/admin/stats
\* new Date() when the clock shows t: one tick of the clock is one day.
Today(t) == Date(2025, 3, t)

\* a > b on two dates
DateAfter(a, b) ==
    \/ a.y > b.y
    \/ a.y = b.y /\ a.m > b.m
    \/ a.y = b.y /\ a.m = b.m /\ a.d > b.d

\* sevenDaysAgo.setDate(sevenDaysAgo.getDate() - 7), on the clock
SevenDaysAgo(t) == t - 7

StatsQueries == 9

\* The k-th awaited read of the stats handler. Every registration was created
\* within the span of the clock, which is shorter than seven days; the groups of
\* the two aggregates are given without their order.
StatsQuery(k, pl, lg, t) ==
    CASE k = 1 -> Cardinality(DOMAIN pl)
      [] k = 2 -> Cardinality({ c \in DOMAIN pl : pl[c].isUsed })
      [] k = 3 -> Cardinality(DOMAIN lg)
      [] k = 4 -> Cardinality({ r \in DOMAIN lg :
                      lg[r].status = "active" /\ DateAfter(lg[r].warrantyEndDate, Today(t)) })
      [] k = 5 -> Cardinality({ r \in DOMAIN lg : lg[r].status = "claimed" })
      [] k = 6 -> { [id |-> pid,
                     count |-> Cardinality({ r \in DOMAIN lg : lg[r].productId = pid })] :
                    pid \in { lg[r].productId : r \in DOMAIN lg } }
      [] k = 7 -> { [id |-> type,
                     count |-> Cardinality({ r \in DOMAIN lg : /\ lg[r].status = "claimed"
                                                               /\ lg[r].claimType = type })] :
                    type \in { lg[r].claimType :
                                 r \in { c \in DOMAIN lg : lg[c].status = "claimed" } } }
      [] k = 8 -> Cardinality(DOMAIN lg)
      [] k = 9 -> Cardinality({ r \in DOMAIN lg : /\ lg[r].claimDate # Null
                                                  /\ lg[r].claimDate >= SevenDaysAgo(t) })

StatsResponse(counts) ==
    [Response(200, "stats") EXCEPT !.data =
    [totalWarrantyNumbers |-> counts[1], usedWarrantyNumbers |-> counts[2],
     availableWarrantyNumbers |-> counts[1] - counts[2], totalRegistrations |-> counts[3],
     activeWarranties |-> counts[4], claimedWarranties |-> counts[5],
     recentRegistrations |-> counts[8], recentClaims |-> counts[9],
     productStats |-> counts[6], claimStats |-> counts[7]]]

StatsStart(p) == Accept(p, [NoRequest EXCEPT !.op = "stats"], "stats_read")

\* The next awaited countDocuments or aggregate; after the last one, res.json(...)
StatsRead(p) ==
    /\ pc[p] = "stats_read"
    /\ LET counts == Append(reads[p], StatsQuery(Len(reads[p]) + 1, pool, ledger, now))
       IN IF Len(counts) = StatsQueries
          THEN Respond(p, StatsResponse(counts))
          ELSE /\ reads' = [reads EXCEPT ![p] = counts]
               /\ UNCHANGED <<pc, req, resp, validWarrantyNumber, registration, upload>>
    /\ UNCHANGED <<pool, ledger, nextId, now, zone, shopify, svc>>

\* --------------------------------------------------------- marketing sync
\* The state of the server, which the marketing services neither read nor write.
serverVars ==
    <<pool, ledger, nextId, now, pc, req, resp, validWarrantyNumber, registration, upload,
      reads, zone>>

Emails == {"al@x", "cy@x"}

\* An outbound HTTP call resolves or rejects.
Outcomes == {"ok", "fail"}

\* The object a service method resolves with.
ServiceResult(success, action) ==
    [raised |-> FALSE, success |-> success, action |-> action]

\* The promise of the service method rejects.
Raised == [raised |-> TRUE, success |-> FALSE, action |-> "none"]

\* A service method is called with the customer's email.
ServiceStart(op, email, at) ==
    /\ svc.at \in {"idle", "done"}
    /\ svc' = [NoService EXCEPT !.op = op, !.email = email, !.at = at]
    /\ UNCHANGED <<serverVars, shopify>>

\* The call in progress issues the request `name`, which ends with `outcome`.
Called(name, outcome) == [svc EXCEPT !.calls = Append(@, <<name, outcome>>)]

\* The method returns.
Returns(call, result) == [call EXCEPT !.at = "done", !.result = result]

\* ---- EmailService.sendWarrantyConfirmation, campaign variant (emailService.js)
EmailStart(email) == ServiceStart("campaign", email, "contacts")

\* addContactSimple rethrowing the error of the contact request.
EmailAddContactThrows(outcome) ==
    /\ svc.op = "campaign" /\ svc.at = "contacts"
    /\ svc' = [Called("contacts", outcome) EXCEPT
                 !.at = IF outcome = "ok" THEN "campaigns" ELSE "messages"]
    /\ UNCHANGED <<serverVars, shopify>>

\* await this.addContactSimple(...): POST /contacts; its catch block returns null
EmailAddContact(outcome) ==
    /\ svc.op = "campaign" /\ svc.at = "contacts"
    /\ svc' = [Called("contacts", outcome) EXCEPT !.at = "campaigns"]
    /\ UNCHANGED <<serverVars, shopify>>

\* await axios.post(.../campaigns): on success the method returns, on failure its
\* catch block calls sendDirectEmail
EmailCampaign(outcome) ==
    /\ svc.op = "campaign" /\ svc.at = "campaigns"
    /\ svc' = IF outcome = "ok"
              THEN Returns(Called("campaigns", outcome), ServiceResult(TRUE, "campaign"))
              ELSE [Called("campaigns", outcome) EXCEPT !.at = "messages"]
    /\ UNCHANGED <<serverVars, shopify>>

\* sendDirectEmail letting the error of the message request escape.
EmailDirectRaises(outcome) ==
    /\ svc.op = "campaign" /\ svc.at = "messages"
    /\ svc' = IF outcome = "ok"
              THEN Returns(Called("messages", outcome), ServiceResult(TRUE, "direct"))
              ELSE Returns(Called("messages", outcome), Raised)
    /\ UNCHANGED <<serverVars, shopify>>

\* sendDirectEmail: await axios.post(.../messages); its catch block returns
\* { success: false, ... }
EmailDirect(outcome) ==
    /\ svc.op = "campaign" /\ svc.at = "messages"
    /\ svc' = Returns(Called("messages", outcome),
                      ServiceResult(outcome = "ok", IF outcome = "ok" THEN "direct"
                                                    ELSE "failed"))
    /\ UNCHANGED <<serverVars, shopify>>

\* ---- EmailService.sendWarrantyConfirmation, contact variant (part_001)
V5Start(email) == ServiceStart("contact", email, "contacts")

\* addContactV5: POST /contacts; its catch block rethrows and the catch block of
\* sendWarrantyConfirmation returns { success: false, ... }
V5AddContact(outcome) ==
    /\ svc.op = "contact" /\ svc.at = "contacts"
    /\ svc' = IF outcome = "ok"
              THEN [Called("contacts", outcome) EXCEPT !.at = "events"]
              ELSE Returns(Called("contacts", outcome), ServiceResult(FALSE, "failed"))
    /\ UNCHANGED <<serverVars, shopify>>

\* triggerWarrantyEvent: POST /events; its catch block swallows the error
V5TriggerEvent(outcome) ==
    /\ svc.op = "contact" /\ svc.at = "events"
    /\ svc' = Returns(Called("events", outcome), ServiceResult(TRUE, "contact"))
    /\ UNCHANGED <<serverVars, shopify>>

\* ---- ShopifyService.createOrUpdateCustomer
ShopifyStart(email) == ServiceStart("shopify", email, "search")

\* findCustomerByEmail: GET /customers/search.json; customers[0] or null, and null
\* from its catch block
FindCustomerByEmail(directory, email, outcome) == outcome = "ok" /\ email \in directory

\* const existingCustomer = await this.findCustomerByEmail(customerData.email)
ShopifyFind(outcome) ==
    /\ svc.op = "shopify" /\ svc.at = "search"
    /\ LET existingCustomer == FindCustomerByEmail(shopify, svc.email, outcome)
       IN svc' = [Called("search", outcome) EXCEPT
                    !.existingCustomer = existingCustomer,
                    !.at = IF existingCustomer THEN "update" ELSE "create"]
    /\ UNCHANGED <<serverVars, shopify>>

\* updateCustomerWithWarranty: PUT /customers/:id.json
ShopifyUpdate(outcome) ==
    /\ svc.op = "shopify" /\ svc.at = "update"
    /\ svc' = Returns(Called("update", outcome),
                      ServiceResult(outcome = "ok", IF outcome = "ok" THEN "updated"
                                                    ELSE "failed"))
    /\ UNCHANGED <<serverVars, shopify>>

\* createCustomerWithWarranty: POST /customers.json
ShopifyCreate(outcome) ==
    /\ svc.op = "shopify" /\ svc.at = "create"
    /\ svc' = Returns(Called("create", outcome),
                      ServiceResult(outcome = "ok", IF outcome = "ok" THEN "created"
                                                    ELSE "failed"))
    /\ shopify' = IF outcome = "ok" THEN shopify \cup {svc.email} ELSE shopify
    /\ UNCHANGED serverVars

\* ----------------------------------------------- an awaited call rejects
\* The rejection of the pending call is caught nowhere: the request is left
\* without a response.
CallFailsUncaught(p) ==
    /\ pc[p] \notin {"idle", "upl_create"}
    /\ pc' = [pc EXCEPT ![p] = "lost"]
    /\ UNCHANGED <<pool, ledger, nextId, now, zone, shopify, svc, req, resp,
                   validWarrantyNumber, registration, upload, reads>>

\* The pending database call of handler p throws (connection lost, timeout): the
\* handler's catch block answers 500 with the error's message. The loop of the
\* upload has a catch block of its own, see UploadCreateFails.
CallFails(p) ==
    /\ pc[p] \notin {"idle", "upl_create"}
    /\ Respond(p, ServerErrorResponse("database error"))
    /\ UNCHANGED <<pool, ledger, nextId, now, zone, shopify, svc>>

\* WarrantyNumber.create(item) of the upload throws an error other than 11000: the
\* catch block inside the loop notes it and the loop goes on.
UploadCreateFails(p) ==
    /\ pc[p] = "upl_create"
    /\ upload[p].results # <<>>
    /\ LET item == Head(upload[p].results)
           up == [upload[p] EXCEPT !.results = Tail(@),
                                   !.errors = Append(@, UploadError(item, "database error"))]
       IN IF up.results = <<>>
          THEN Respond(p, UploadedResponse(up.successCount, up.errors))
          ELSE /\ upload' = [upload EXCEPT ![p] = up]
               /\ UNCHANGED <<pc, req, resp, validWarrantyNumber, registration, reads>>
    /\ UNCHANGED <<pool, ledger, nextId, now, zone, shopify, svc>>

\* The one awaited call of the insert or of the update throws: the catch block
\* answers 500.
SingleCallFails(p) ==
    /\ pc[p] = "idle"
    /\ resp' = [resp EXCEPT ![p] = ServerErrorResponse("database error")]
    /\ UNCHANGED <<pool, ledger, nextId, now, zone, shopify, svc, pc, req,
                   validWarrantyNumber, registration, upload, reads>>

\* The process stops while handler p is suspended at an awaited call: the handler
\* never resumes and no response is sent.
Crash(p) ==
    /\ pc[p] # "idle"
    /\ Respond(p, NoResponse)
    /\ UNCHANGED <<pool, ledger, nextId, now, zone, shopify, svc>>

\* ------------------------------------- the handlers run without interleaving
\* POST /api/register from its first line to its response, every call succeeding.
RegisterRun(pl, lg, id, t, warrantyNumber, productId, purchaseDate, complete) ==
    LET early == RegisterPrecondition(pl, warrantyNumber, productId)
        found == FindOneWarrantyNumber(pl, warrantyNumber, productId)
    IN IF early # NoResponse
       THEN [pool |-> pl, ledger |-> lg, resp |-> early]
       ELSE IF ~complete
       THEN [pool |-> pl, ledger |-> lg,
             resp |-> ServerErrorResponse("WarrantyRegistration validation failed")]
       ELSE [pool |-> MarkUsed(pl, found, id, t),
             ledger |-> CreateRegistration(lg, id,
                           NewRegistration(warrantyNumber, productId, purchaseDate,
                                           StockCustomer)),
             resp |-> RegisteredResponse(id)]

\* DELETE /api/admin/registrations/:id from its first line to its response.
DeleteRegistrationRun(pl, lg, id) ==
    LET found == FindRegistrationById(lg, id)
    IN IF CastIdError(id) = "CastError"
       THEN [pool |-> pl, ledger |-> lg, resp |-> InvalidRegistrationIdResponse]
       ELSE IF found = NoRegistration
       THEN [pool |-> pl, ledger |-> lg, resp |-> RegistrationNotFoundResponse]
       ELSE [pool |-> FreeWarrantyNumber(pl, found.warrantyNumber),
             ledger |-> DeleteRegistrationById(lg, id),
             resp |-> DeletedResponse(found.warrantyNumber)]

\* UnlinkRegistrationRun keeping the registration document.
UnlinkRegistrationRunKeepsRecord(pl, lg, id) ==
    LET found == FindRegistrationById(lg, id)
    IN IF found = NoRegistration
       THEN [pool |-> pl, ledger |-> lg, resp |-> RegistrationNotFoundResponse]
       ELSE [pool |-> FreeWarrantyNumber(pl, found.warrantyNumber),
             ledger |-> lg,
             resp |-> UnlinkedResponse(found.warrantyNumber)]

\* POST /api/admin/registrations/:id/unlink from its first line to its response.
UnlinkRegistrationRun(pl, lg, id) ==
    LET found == FindRegistrationById(lg, id)
        warrantyNumberToFree == found.warrantyNumber
    IN IF CastIdError(id) = "CastError"
       THEN [pool |-> pl, ledger |-> lg, resp |-> InvalidRegistrationIdResponse]
       ELSE IF found = NoRegistration
       THEN [pool |-> pl, ledger |-> lg, resp |-> RegistrationNotFoundResponse]
       ELSE [pool |-> FreeWarrantyNumber(pl, warrantyNumberToFree),
             ledger |-> DeleteRegistrationById(lg, id),
             resp |-> UnlinkedResponse(warrantyNumberToFree)]

\* ------------------------------------------------------- specifications
\* One step of handler p.
HandlerStep(p) ==
    \/ \E c \in Codes, pid \in Products : InsertWarrantyNumber(p, c, pid, StockName)
    \/ \E c \in Codes, pid \in Products, ok \in BOOLEAN :
          RegisterStart(p, c, pid, StockDate, StockCustomer, ok)
    \/ RegisterFind(p)
    \/ RegisterCreate(p)
    \/ RegisterMark(p)
    \/ \E id \in Ids : DeleteStart(p, id)
    \/ DeleteFind(p)
    \/ DeleteFree(p)
    \/ DeleteDelete(p)
    \/ \E id \in Ids : UnlinkStart(p, id)
    \/ UnlinkFind(p)
    \/ UnlinkFree(p)
    \/ UnlinkDelete(p)

Next ==
    \/ Tick
    \/ \E p \in Procs : HandlerStep(p)

\* Concurrent requests, every database call succeeding.
Spec == Init /\ [][Next]_vars

NextSeq ==
    \/ Tick
    \/ HandlerStep(SeqProc)

\* Requests served one after another, every database call succeeding.
SpecSeq == Init /\ [][NextSeq]_vars

NextFail ==
    \/ NextSeq
    \/ CallFails(SeqProc)

\* Requests served one after another, any awaited database call may reject.
SpecFail == Init /\ [][NextFail]_vars

NextCrash ==
    \/ NextFail
    \/ Crash(SeqProc)

\* Requests served one after another; an awaited call may reject and the process
\* may stop between two calls of a handler.
SpecCrash == Init /\ [][NextCrash]_vars

\* The rows the uploaded files are made of: a well-formed row, a row with the same
\* warranty number after leading blanks, a row without productId, a row whose
\* productName is blank.
UploadRows ==
    { Row(Cell("W1", FALSE), Cell("P1", FALSE), Cell("N1", FALSE)),
      Row(Cell("W1", TRUE), Cell("P1", FALSE), Cell("N2", FALSE)),
      Row(Cell("W2", FALSE), Cell("", FALSE), Cell("N1", FALSE)),
      Row(Cell("W2", FALSE), Cell("P2", FALSE), Cell("", TRUE)) }

Files == UNION {[1..n -> UploadRows] : n \in 0..MaxRows}

\* One step of the pool's admin handlers with every input they accept.
PoolStep(p) ==
    \/ \E c \in Codes \cup {""}, pid \in Products \cup {""}, name \in ProductNames \cup {""} :
          InsertWarrantyNumber(p, c, pid, name)
    \/ UploadWithoutFile(p)
    \/ \E rows \in Files : UploadStart(p, rows)
    \/ UploadCreate(p)

NextPool ==
    \/ HandlerStep(SeqProc)
    \/ PoolStep(SeqProc)

\* Requests served one after another at one point in time, the pool stocked by
\* single inserts and by uploads with any product name.
SpecPool == Init /\ [][NextPool]_vars

Admins == {"admin", "support"}

\* The request bodies the updates are made of: claims with and without claimDate,
\* a claimType alone, a status set back, a warrantyNumber at the top level and in
\* a "$set" document, a status outside the enum, a productId, a purchaseDate, a
\* warrantyEndDate alone and the two together.
UpdateBodies ==
    { [NoPatch EXCEPT !.status = "claimed", !.claimType = "repair"],
      [NoPatch EXCEPT !.status = "claimed", !.claimDate = 1, !.claimNotes = "note"],
      [NoPatch EXCEPT !.claimType = "refund"],
      [NoPatch EXCEPT !.status = "active"],
      [NoPatch EXCEPT !.warrantyNumber = "W2", !.claimNotes = "note"],
      [NoPatch EXCEPT !.dollarSet = "W2"],
      [NoPatch EXCEPT !.status = "void"],
      [NoPatch EXCEPT !.productId = "P2"],
      [NoPatch EXCEPT !.purchaseDate = Date(2024, 2, 29)],
      [NoPatch EXCEPT !.warrantyEndDate = Date(2024, 3, 15)],
      [NoPatch EXCEPT !.purchaseDate = Date(2023, 3, 15),
                      !.warrantyEndDate = Date(2024, 3, 15)] }

\* One step of the handlers around one warranty number and its registration.
AdminStep(p) ==
    \/ InsertWarrantyNumber(p, "W1", "P1", StockName)
    \/ \E date \in PurchaseDates : RegisterStart(p, "W1", "P1", date, StockCustomer, TRUE)
    \/ RegisterFind(p)
    \/ RegisterCreate(p)
    \/ RegisterMark(p)
    \/ \E id \in Ids \cup {MalformedId}, body \in UpdateBodies, admin \in Admins :
          UpdateRegistration(p, id, body, admin)
    \/ \E id \in Ids \cup {MalformedId} : DeleteStart(p, id)
    \/ DeleteFind(p)
    \/ DeleteFree(p)
    \/ DeleteDelete(p)
    \/ \E id \in Ids \cup {MalformedId} : UnlinkStart(p, id)
    \/ UnlinkFind(p)
    \/ UnlinkFree(p)
    \/ UnlinkDelete(p)

NextAdmin ==
    \/ Tick
    \/ AdminStep(SeqProc)

\* Requests served one after another: one warranty number is registered, its
\* registration is updated by the admins and deleted.
SpecAdmin == Init /\ [][NextAdmin]_vars

\* The server is started in one of the time zones.
InitZones ==
    /\ pool = <<>>
    /\ ledger = <<>>
    /\ nextId = 1
    /\ now = 1
    /\ pc = [p \in Procs |-> "idle"]
    /\ req = [p \in Procs |-> NoRequest]
    /\ resp = [p \in Procs |-> NoResponse]
    /\ validWarrantyNumber = [p \in Procs |-> NoCode]
    /\ registration = [p \in Procs |-> NoRegistration]
    /\ upload = [p \in Procs |-> NoUpload]
    /\ reads = [p \in Procs |-> NoReads]
    /\ zone \in Zones
    /\ shopify = {}
    /\ svc = NoService

\* One step of the handlers that compute a warrantyEndDate, around one warranty
\* number: it is registered with a purchase date, the purchase date is updated,
\* and the registration is deleted so that the number can be registered again.
DatesStep(p) ==
    \/ InsertWarrantyNumber(p, "W1", "P1", StockName)
    \/ \E date \in LeapPurchaseDates : RegisterStart(p, "W1", "P1", date, StockCustomer, TRUE)
    \/ RegisterFind(p)
    \/ RegisterCreate(p)
    \/ RegisterMark(p)
    \/ \E id \in Ids, date \in LeapPurchaseDates :
          UpdateRegistration(p, id, [NoPatch EXCEPT !.purchaseDate = date], "admin")
    \/ \E id \in Ids : DeleteStart(p, id)
    \/ DeleteFind(p)
    \/ DeleteFree(p)
    \/ DeleteDelete(p)

NextDates == DatesStep(SeqProc)

\* Requests served one after another on a server in any of the time zones.
SpecDates == InitZones /\ [][NextDates]_vars

\* ------------------------------------------------- the marketing services
NextSync ==
    \/ \E email \in Emails : EmailStart(email)
    \/ \E outcome \in Outcomes : EmailAddContact(outcome)
    \/ \E outcome \in Outcomes : EmailCampaign(outcome)
    \/ \E outcome \in Outcomes : EmailDirect(outcome)
    \/ \E email \in Emails : V5Start(email)
    \/ \E outcome \in Outcomes : V5AddContact(outcome)
    \/ \E outcome \in Outcomes : V5TriggerEvent(outcome)
    \/ \E email \in Emails : ShopifyStart(email)
    \/ \E outcome \in Outcomes : ShopifyFind(outcome)
    \/ \E outcome \in Outcomes : ShopifyUpdate(outcome)
    \/ \E outcome \in Outcomes : ShopifyCreate(outcome)

\* The service methods called one after another, each outbound call resolving or
\* rejecting.
SpecSync == Init /\ [][NextSync]_vars

\* ------------------------------------------- every handler, one at a time
Customers == {StockCustomer, Customer("Cy", "Di", "Cy Di", "cy@x", "N2", "o2")}

\* Query strings of the pool listing.
ListQueries ==
    { NoQuery,
      [NoQuery EXCEPT !.productId = "P1", !.isUsed = "true"],
      [NoQuery EXCEPT !.isUsed = "false"],
      [NoQuery EXCEPT !.page = 2] }

\* Query strings of the registration search: none, one filter at a time, several
\* together, name together with search, a second page.
SearchQueries ==
    { NoQuery,
      [NoQuery EXCEPT !.name = "al"],
      [NoQuery EXCEPT !.name = "di"],
      [NoQuery EXCEPT !.search = "w2"],
      [NoQuery EXCEPT !.search = "N1"],
      [NoQuery EXCEPT !.name = "zz", !.search = "AL"],
      [NoQuery EXCEPT !.email = "@", !.status = "active"],
      [NoQuery EXCEPT !.productId = "P1", !.orderId = "o1"],
      [NoQuery EXCEPT !.warrantyNumber = "W1", !.status = "claimed"],
      [NoQuery EXCEPT !.page = 2, !.limit = 1] }

\* Bodies of the update: each status of the enum, and a claim with its type.
StatusBodies ==
    { [NoPatch EXCEPT !.status = "active"],
      [NoPatch EXCEPT !.status = "expired"],
      [NoPatch EXCEPT !.status = "claimed", !.claimType = "repair"] }

AllStep(p) ==
    \/ \E c \in Codes : InsertWarrantyNumber(p, c, "P1", StockName)
    \/ \E c \in Codes, customer \in Customers :
          RegisterStart(p, c, "P1", StockDate, customer, TRUE)
    \/ RegisterFind(p)
    \/ RegisterCreate(p)
    \/ RegisterMark(p)
    \/ \E id \in Ids, body \in StatusBodies : UpdateRegistration(p, id, body, "admin")
    \/ \E id \in Ids : DeleteStart(p, id)
    \/ DeleteFind(p)
    \/ DeleteFree(p)
    \/ DeleteDelete(p)
    \/ \E id \in Ids : UnlinkStart(p, id)
    \/ UnlinkFind(p)
    \/ UnlinkFree(p)
    \/ UnlinkDelete(p)
    \/ \E query \in ListQueries : ListStart(p, query)
    \/ ListFind(p)
    \/ ListCount(p)
    \/ \E query \in SearchQueries : SearchStart(p, query)
    \/ SearchFind(p)
    \/ SearchCount(p)
    \/ StatsStart(p)
    \/ StatsRead(p)

NextAll == AllStep(SeqProc)

\* Requests served one after another by every handler of the two collections,
\* the read-only ones included.
SpecAll == Init /\ [][NextAll]_vars

\* ------------------------------------- every call returns or fails
\* The uploaded files: up to MaxRows rows, by turns a row for W1 and a row for W2.
SmallFiles ==
    { [i \in 1..n |-> IF i % 2 = 1
                      THEN Row(Cell("W1", FALSE), Cell("P1", FALSE), Cell("N1", FALSE))
                      ELSE Row(Cell("W2", FALSE), Cell("P1", FALSE), Cell("N1", FALSE))] :
      n \in 0..MaxRows }

\* A request arrives at handler p. A register is let in while the ledger of the
\* model has an ObjectId left for it.
Arrive(p) ==
    \/ InsertWarrantyNumber(p, "W1", "P1", StockName)
    \/ UploadWithoutFile(p)
    \/ \E rows \in SmallFiles : UploadStart(p, rows)
    \/ \E ok \in BOOLEAN :
          nextId <= MaxIds /\ RegisterStart(p, "W1", "P1", StockDate, StockCustomer, ok)
    \/ \E id \in Ids :
          UpdateRegistration(p, id, [NoPatch EXCEPT !.status = "expired"], "admin")
    \/ SingleCallFails(p)
    \/ \E id \in Ids : DeleteStart(p, id)
    \/ \E id \in Ids : UnlinkStart(p, id)
    \/ ListStart(p, NoQuery)
    \/ SearchStart(p, [NoQuery EXCEPT !.name = "al"])
    \/ StatsStart(p)

\* The awaited call of handler p returns and the handler runs to its next awaited
\* call or to its response.
CallReturns(p) ==
    \/ UploadCreate(p)
    \/ RegisterFind(p)
    \/ RegisterCreate(p)
    \/ RegisterMark(p)
    \/ DeleteFind(p)
    \/ DeleteFree(p)
    \/ DeleteDelete(p)
    \/ UnlinkFind(p)
    \/ UnlinkFree(p)
    \/ UnlinkDelete(p)
    \/ ListFind(p)
    \/ ListCount(p)
    \/ SearchFind(p)
    \/ SearchCount(p)
    \/ StatsRead(p)

\* The awaited call of handler p returns or fails.
CallEnds(p) ==
    \/ CallReturns(p)
    \/ CallFails(p)
    \/ UploadCreateFails(p)

NextLive ==
    \/ Arrive(SeqProc)
    \/ CallEnds(SeqProc)

\* Requests served one after another; a call a handler awaits returns or fails, and
\* does so eventually.
SpecLive == Init /\ [][NextLive]_vars /\ WF_vars(CallEnds(SeqProc))

\* ------------------------------------------------------------- properties
\* The registrations of the ledger that carry warranty number c.
RegistrationsOf(lg, c) == {r \in DOMAIN lg : lg[r].warrantyNumber = c}

AllIdle == \A p \in Procs : pc[p] = "idle"

\* C1: after any sequence of register, delete and unlink requests served one after
\* another, each to completion and no call failing, a pool record is used iff
\* exactly one registration carries its warranty number, and free iff none does.
C1_UsedIffOneRegistration ==
    pc[SeqProc] = "idle" =>
        \A c \in DOMAIN pool :
            /\ pool[c].isUsed <=> Cardinality(RegistrationsOf(ledger, c)) = 1
            /\ ~pool[c].isUsed <=> RegistrationsOf(ledger, c) = {}

\* A delete or unlink has just answered while another warranty number is still bound.
C1_Witness ==
    /\ pc[SeqProc] = "idle"
    /\ resp[SeqProc].freedWarrantyNumber # NoCode
    /\ \E c \in DOMAIN pool :
          pool[c].isUsed /\ Cardinality(RegistrationsOf(ledger, c)) = 1

\* C2: of two concurrent register calls for the same available warranty number at
\* most one answers success: never do two handlers both hold a success response
\* whose registrations, both in the ledger, carry the same warranty number.
C2_OneConcurrentRegisterSucceeds ==
    \A p, q \in Procs :
        ( /\ p # q
          /\ resp[p].status = 200 /\ resp[p].registrationId \in DOMAIN ledger
          /\ resp[q].status = 200 /\ resp[q].registrationId \in DOMAIN ledger )
        => ledger[resp[p].registrationId].warrantyNumber
             # ledger[resp[q].registrationId].warrantyNumber

\* C3: whenever no request is in progress, a pool record is used iff its
\* registrationId is set and names a registration of the ledger that carries the
\* record's warranty number.
C3_UsedIffLinked ==
    AllIdle =>
        \A c \in DOMAIN pool :
            pool[c].isUsed <=>
                ( /\ pool[c].registrationId # Null
                  /\ pool[c].registrationId \in DOMAIN ledger
                  /\ ledger[pool[c].registrationId].warrantyNumber = c )

\* C4: in every reachable state at most one registration of the ledger carries a
\* given warranty number.
C4_AtMostOneRegistrationPerCode ==
    \A c \in Codes : Cardinality(RegistrationsOf(ledger, c)) <= 1

\* C5: register never ends with its registration created and the pool record of its
\* warranty number still free unless it answers PartialRegistrationFailure.
C5_PartialFailureReported ==
    [][ \A p \in Procs :
          ( /\ pc[p] = "reg_mark"
            /\ pc'[p] = "idle"
            /\ registration[p].id \in DOMAIN ledger'
            /\ ~pool'[validWarrantyNumber[p]].isUsed )
          => resp'[p].body = "PartialRegistrationFailure" ]_vars

\* C6: once a delete of a registration created by register has answered success for
\* warranty number c, the pool record of c is free with usedAt and registrationId
\* cleared, no registration carries c, and registering c again for its product
\* succeeds.
C6_DeleteMakesCodeAvailableAgain ==
    \A c \in Codes :
        (pc[SeqProc] = "idle" /\ resp[SeqProc] = DeletedResponse(c)) =>
            /\ c \in DOMAIN pool
            /\ pool[c].isUsed = FALSE
            /\ pool[c].usedAt = Null
            /\ pool[c].registrationId = Null
            /\ RegistrationsOf(ledger, c) = {}
            /\ RegisterRun(pool, ledger, nextId, now, c, pool[c].productId, StockDate, TRUE).resp
                  = RegisteredResponse(nextId)

\* A delete has just answered success for a warranty number registered before.
C6_Witness ==
    /\ pc[SeqProc] = "idle"
    /\ nextId > 1
    /\ \E c \in DOMAIN pool : resp[SeqProc] = DeletedResponse(c)

\* C7: for every reachable pool and ledger and every registration id, unlink and
\* delete leave the same pool and the same ledger and answer alike (same status,
\* same freed warranty number): the registration removed and the pool record of
\* its warranty number freed, or 404 and nothing changed.
C7_UnlinkSameAsDelete ==
    \A id \in Ids :
        LET d == DeleteRegistrationRun(pool, ledger, id)
            u == UnlinkRegistrationRun(pool, ledger, id)
        IN /\ d.pool = u.pool
           /\ d.ledger = u.ledger
           /\ d.resp.status = u.resp.status
           /\ d.resp.freedWarrantyNumber = u.resp.freedWarrantyNumber
           /\ IF id \in DOMAIN ledger
              THEN /\ u.resp.status = 200
                   /\ id \notin DOMAIN u.ledger
                   /\ \A c \in DOMAIN pool :
                         c = ledger[id].warrantyNumber => ~u.pool[c].isUsed
              ELSE /\ u.resp.status = 404
                   /\ u.pool = pool
                   /\ u.ledger = ledger

\* An unlink has just answered success while a bound registration remains.
C7_Witness ==
    /\ pc[SeqProc] = "idle"
    /\ resp[SeqProc].body = "Warranty number unlinked successfully and registration removed"
    /\ \E id \in DOMAIN ledger : pool[ledger[id].warrantyNumber].isUsed

\* C8: the mark-used step of register changes a pool record only if it is free:
\* on a record already used it fails and leaves the record as it was.
C8_MarkUsedOnlyFromFree ==
    [][ \A p \in Procs :
          ( /\ pc[p] = "reg_mark"
            /\ pc'[p] = "idle"
            /\ pool[validWarrantyNumber[p]].isUsed )
          => ( /\ pool'[validWarrantyNumber[p]] = pool[validWarrantyNumber[p]]
               /\ resp'[p].status # 200 ) ]_vars

\* C9: a register whose lookup runs when the pool holds no free record with the
\* request's warranty number and productId answers the invalid-warranty-number
\* error and changes neither the pool nor the ledger.
C9_RegisterRejectsWithoutEffect ==
    [][ \A p \in Procs :
          ( /\ pc[p] = "reg_find"
            /\ pc'[p] # "reg_find"
            /\ ~ \E c \in DOMAIN pool :
                    /\ c = req[p].warrantyNumber
                    /\ pool[c].productId = req[p].productId
                    /\ pool[c].isUsed = FALSE )
          => ( /\ pc'[p] = "idle"
               /\ resp'[p] = InvalidWarrantyNumberResponse
               /\ pool' = pool
               /\ ledger' = ledger ) ]_vars

\* A register has been rejected while the pool holds a consumed warranty number and
\* a registration.
C9_Witness ==
    \E p \in Procs :
        /\ pc[p] = "idle"
        /\ resp[p] = InvalidWarrantyNumberResponse
        /\ ledger # <<>>
        /\ \E c \in DOMAIN pool : pool[c].isUsed

\* The pools that differ from pl only in the record of warrantyNumber and in which a
\* register of (warrantyNumber, productId) fails its precondition: the record
\* absent, the record used, the record issued for another product.
PreconditionFailures(pl, warrantyNumber, productId) ==
    LET with(doc) == [c \in (DOMAIN pl) \cup {warrantyNumber} |->
                        IF c = warrantyNumber THEN doc ELSE pl[c]]
    IN {[c \in (DOMAIN pl) \ {warrantyNumber} |-> pl[c]]}
       \cup {with([NewWarrantyNumber(productId, StockName)
                      EXCEPT !.isUsed = TRUE, !.usedAt = t, !.registrationId = r]) :
                t \in 1..MaxClock, r \in Ids}
       \cup {with([NewWarrantyNumber(other, StockName) EXCEPT !.isUsed = u]) :
                other \in Products \ {productId}, u \in BOOLEAN}

\* C10: for a register request about to run its lookup, the early response is one
\* and the same in every pool that differs only in why the precondition fails
\* (warranty number unknown, used, or issued for another product).
C10_RejectionIndependentOfCause ==
    \A p \in Procs :
        pc[p] = "reg_find" =>
            \A v1, v2 \in PreconditionFailures(pool, req[p].warrantyNumber, req[p].productId) :
                /\ RegisterPrecondition(v1, req[p].warrantyNumber, req[p].productId)
                     = RegisterPrecondition(v2, req[p].warrantyNumber, req[p].productId)
                /\ RegisterPrecondition(v1, req[p].warrantyNumber, req[p].productId)
                     # NoResponse

\* A register is at its lookup for a consumed warranty number, and the pool as it
\* stands is one of the compared pools.
C10_Witness ==
    /\ pc[SeqProc] = "reg_find"
    /\ req[SeqProc].warrantyNumber \in DOMAIN pool
    /\ pool[req[SeqProc].warrantyNumber].isUsed
    /\ pool \in PreconditionFailures(pool, req[SeqProc].warrantyNumber,
                                     req[SeqProc].productId)

\* C11: when delete or unlink stops between freeing the pool record and deleting
\* the registration (or anywhere else), no pool record is left used with a
\* registrationId that names no registration of the ledger.
C11_NoUsedRecordWithoutRegistration ==
    \A c \in DOMAIN pool :
        pool[c].isUsed => pool[c].registrationId \in DOMAIN ledger

\* A delete has freed a pool record that was used and has not yet deleted the
\* registration: the point where a stop leaves the registration behind.
C11_Witness ==
    /\ pc[SeqProc] \in {"del_delete", "unl_delete"}
    /\ registration[SeqProc].id \in DOMAIN ledger
    /\ ~pool[registration[SeqProc].warrantyNumber].isUsed
    /\ ENABLED Crash(SeqProc)

C14_InsertRejectsDuplicate ==
    \A c \in Codes, pid \in Products, name \in ProductNames :
        LET run == InsertWarrantyNumberRun(pool, c, pid, name)
        IN IF c \in DOMAIN pool
           THEN /\ run.resp = WarrantyNumberExistsResponse
                /\ run.pool = pool
           ELSE /\ run.resp = WarrantyNumberCreatedResponse
                /\ DOMAIN run.pool = DOMAIN pool \cup {c}
                /\ \A d \in DOMAIN pool : run.pool[d] = pool[d]
                /\ run.pool[c].isUsed = FALSE
                /\ run.pool[c].usedAt = Null
                /\ run.pool[c].registrationId = Null
                /\ run.pool[c].productId = pid
                /\ run.pool[c].productName = name

\* An insert has just been rejected as a duplicate while a record of the pool is
\* used, and another warranty number is still absent from the pool.
C14_Witness ==
    /\ pc[SeqProc] = "idle"
    /\ resp[SeqProc] = WarrantyNumberExistsResponse
    /\ \E c \in DOMAIN pool : pool[c].isUsed
    /\ \E c \in Codes : c \notin DOMAIN pool

\* C15: an upload answers 200 whatever its rows; successCount is the number of
\* well-formed rows (warranty number, productId and productName all present once
\* trimmed) whose warranty number is neither in the pool nor in an earlier
\* well-formed row; the errors name, one entry each, exactly the well-formed rows
\* that were not counted; every counted row is in the pool afterwards with isUsed
\* false, the records already there are untouched, and a row with a missing field
\* gives neither a pool record nor an error entry.
C15_BulkInsertCountsAndReports ==
    \A rows \in Files :
        LET run == UploadRun(pool, rows)
            code(i) == Trim(rows[i].warrantyNumber)
            wellFormed(i) ==
                /\ Trim(rows[i].warrantyNumber) # ""
                /\ Trim(rows[i].productId) # ""
                /\ Trim(rows[i].productName) # ""
            fresh(i) ==
                /\ code(i) \notin DOMAIN pool
                /\ \A j \in 1..(i - 1) : ~(wellFormed(j) /\ code(j) = code(i))
            counted == {i \in 1..Len(rows) : wellFormed(i) /\ fresh(i)}
            failed == {i \in 1..Len(rows) : wellFormed(i) /\ ~fresh(i)}
            errors == run.resp.errors
        IN /\ run.resp.status = 200
           /\ run.resp.successCount = Cardinality(counted)
           /\ Len(errors) = Cardinality(failed)
           /\ \A c \in Codes \cup {""} :
                 Cardinality({k \in 1..Len(errors) : errors[k].warrantyNumber = c})
                    = Cardinality({i \in failed : code(i) = c})
           /\ DOMAIN run.pool = DOMAIN pool \cup {code(i) : i \in counted}
           /\ \A i \in counted : run.pool[code(i)].isUsed = FALSE
           /\ \A d \in DOMAIN pool : run.pool[d] = pool[d]

\* Where a warranty number stands: not in the pool, in the pool and free, or in
\* the pool and used.
Lifecycle(pl, c) ==
    IF c \notin DOMAIN pl THEN "Unissued"
    ELSE IF pl[c].isUsed THEN "Consumed" ELSE "Available"

\* C16: in every step a warranty number either stays where it stands or moves
\* Unissued -> Available (in an insert or an upload), Available -> Consumed (in
\* register's mark step) or Consumed -> Available (in the free step of delete or
\* unlink); it never leaves the pool, never goes from Unissued to Consumed, and
\* the productId and productName of its record never change.
C16_LifecycleTransitions ==
    [][\A c \in Codes :
          LET from == Lifecycle(pool, c)
              to == Lifecycle(pool', c)
          IN /\ \/ to = from
                \/ /\ from = "Unissued" /\ to = "Available"
                   /\ \E p \in Procs : pc[p] \in {"idle", "upl_create"}
                \/ /\ from = "Available" /\ to = "Consumed"
                   /\ \E p \in Procs : pc[p] = "reg_mark"
                \/ /\ from = "Consumed" /\ to = "Available"
                   /\ \E p \in Procs : pc[p] \in {"del_free", "unl_free"}
             /\ c \in DOMAIN pool =>
                   /\ c \in DOMAIN pool'
                   /\ pool'[c].productId = pool[c].productId
                   /\ pool'[c].productName = pool[c].productName]_vars

\* A delete has just made a warranty number Available again while another one is
\* Consumed, the two records carrying different product names.
C16_Witness ==
    \E c, d \in DOMAIN pool :
        /\ resp[SeqProc] = DeletedResponse(c)
        /\ Lifecycle(pool, c) = "Available"
        /\ Lifecycle(pool, d) = "Consumed"
        /\ pool[c].productName # pool[d].productName

C17_RegistrationCodeFixed ==
    [][\A r \in DOMAIN ledger \cap DOMAIN ledger' :
          ledger'[r].warrantyNumber = ledger[r].warrantyNumber]_vars

\* The bodies with status 'claimed': with and without claimDate, claimType, a
\* claimProcessedBy of the sender's choosing and a warrantyNumber.
ClaimedBodies ==
    {[NoPatch EXCEPT !.status = "claimed", !.claimDate = date, !.claimType = type,
                     !.claimProcessedBy = by, !.warrantyNumber = code] :
        date \in {Null, 1}, type \in {"", "repair"}, by \in {"", "mallory"},
        code \in {NoCode, "W2"}}

\* C18: an update of a registration of the ledger whose body has status 'claimed'
\* stores status claimed, as claimDate the body's claimDate when it has one and
\* the current time otherwise, and as claimProcessedBy the admin who sent the
\* request, whatever claimProcessedBy the body carries.
C18_ClaimStamped ==
    \A r \in DOMAIN ledger, admin \in Admins, body \in ClaimedBodies :
        LET run == UpdateRegistrationRun(ledger, r, body, admin, now)
        IN /\ run.resp = UpdatedResponse(r)
           /\ run.ledger[r].status = "claimed"
           /\ run.ledger[r].claimDate = IF body.claimDate # Null THEN body.claimDate
                                        ELSE now
           /\ run.ledger[r].claimProcessedBy = admin

\* The admin 'support' has just claimed a registration without a claimDate in the
\* body, at a time later than the first.
C18_Witness ==
    /\ pc[SeqProc] = "idle"
    /\ \E r \in DOMAIN ledger :
          /\ resp[SeqProc] = UpdatedResponse(r)
          /\ ledger[r].status = "claimed"
          /\ ledger[r].claimType = "repair"
          /\ ledger[r].claimProcessedBy = "support"
          /\ ledger[r].claimDate = now
          /\ now > 1

\* C19: a registration with a claimDate, claimType, claimNotes or
\* claimProcessedBy has status claimed.
C19_ClaimFieldsOnlyWhenClaimed ==
    \A r \in DOMAIN ledger :
        (\/ ledger[r].claimDate # Null
         \/ ledger[r].claimType # ""
         \/ ledger[r].claimNotes # ""
         \/ ledger[r].claimProcessedBy # "") => ledger[r].status = "claimed"

\* C20: the warrantyEndDate of every registration is its purchaseDate moved on by
\* one year.
C20_EndDateOneYearAfterPurchase ==
    \A r \in DOMAIN ledger :
        ledger[r].warrantyEndDate = AddOneYear(ledger[r].purchaseDate)

\* C21: the warrantyEndDate register and update store is a date of the calendar
\* in the year after the purchase date; it has the month and day of the purchase
\* date, except for a purchase on 29 February, where it is 28 February or 1 March
\* and the same one on every server.
C21_OneYearKeepsMonthAndDay ==
    /\ \A r \in DOMAIN ledger :
          LET purchase == ledger[r].purchaseDate
              end == ledger[r].warrantyEndDate
          IN /\ end.y = purchase.y + 1
             /\ end.m \in 1..12
             /\ end.d \in 1..DaysInMonth(end.y, end.m)
             /\ IF purchase.m = 2 /\ purchase.d = 29
                THEN end \in {Date(end.y, 2, 28), Date(end.y, 3, 1)}
                ELSE end.m = purchase.m /\ end.d = purchase.d
    /\ \A date \in LeapPurchaseDates, z1, z2 \in Zones :
          (date.m = 2 /\ date.d = 29) => AddOneYearIn(date, z1) = AddOneYearIn(date, z2)

\* C22: a register that found its warranty number free for the product and whose
\* body lacks a required field of the registration ends at its create call: it
\* answers with the validation error, the ledger and the pool are as before, the
\* pool record is still free, and a complete register of the same warranty number
\* run next succeeds.
C22_ValidationFailureLeavesCodeFree ==
    [][ \A p \in Procs :
          ( /\ pc[p] = "reg_create"
            /\ pc'[p] # "reg_create"
            /\ ~req[p].complete )
          => ( /\ pc'[p] = "idle"
               /\ resp'[p] = ServerErrorResponse("WarrantyRegistration validation failed")
               /\ ledger' = ledger
               /\ pool' = pool
               /\ pool'[req[p].warrantyNumber].isUsed = FALSE
               /\ nextId' <= MaxIds =>
                     RegisterRun(pool', ledger', nextId', now', req[p].warrantyNumber,
                                 req[p].productId, StockDate, TRUE).resp
                        = RegisteredResponse(nextId') ) ]_vars

\* A register has just failed validation while the ledger holds a registration of
\* another warranty number and an id is left for a later register.
C22_Witness ==
    /\ pc[SeqProc] = "idle"
    /\ resp[SeqProc] = ServerErrorResponse("WarrantyRegistration validation failed")
    /\ ledger # <<>>
    /\ nextId <= MaxIds
    /\ \E c \in DOMAIN pool : ~pool[c].isUsed

\* C29: a register that creates no registration answers the same whatever the
\* pool holds for the requested warranty number: for every request, complete or
\* lacking a required field, the response in the pool where the number is free for
\* the product equals the response in each pool where it is unknown, used or issued
\* for another product, whenever neither run creates a registration.
C29_NoRegistrationNoInformation ==
    \A c \in Codes, pid \in Products, complete \in BOOLEAN :
        LET available == [d \in (DOMAIN pool) \cup {c} |->
                            IF d = c THEN NewWarrantyNumber(pid, StockName) ELSE pool[d]]
            free == RegisterRun(available, ledger, nextId, now, c, pid, StockDate, complete)
        IN \A other \in PreconditionFailures(pool, c, pid) :
              LET failed == RegisterRun(other, ledger, nextId, now, c, pid, StockDate,
                                        complete)
              IN (free.ledger = ledger /\ failed.ledger = ledger)
                    => free.resp = failed.resp

\* C30: every registration of the ledger carries a warrantyNumber that is in the
\* pool, and its productId is the productId of that pool record.
C30_RegistrationMatchesPool ==
    \A r \in DOMAIN ledger :
        /\ ledger[r].warrantyNumber \in DOMAIN pool
        /\ ledger[r].productId = pool[ledger[r].warrantyNumber].productId

\* The steps of the read-only handlers.
ReadSteps == {"list_find", "list_count", "search_find", "search_count", "stats_read"}

\* isUsed, usedAt or registrationId of a record of the pool differs after the
\* step, or the record is gone.
LinkChanged ==
    \E c \in DOMAIN pool :
        \/ c \notin DOMAIN pool'
        \/ pool'[c].isUsed # pool[c].isUsed
        \/ pool'[c].usedAt # pool[c].usedAt
        \/ pool'[c].registrationId # pool[c].registrationId

\* C23: the registration search, the stats and the pool listing change neither the
\* pool nor the ledger, from the arrival of the request to its response; an update
\* changes no pool record; and isUsed, usedAt and registrationId of a pool record
\* change only in the marking step of register and in the freeing steps of delete
\* and unlink.
C23_ReadsAndUpdateLeaveThePool ==
    [][/\ (pc[SeqProc] \in ReadSteps \/ pc'[SeqProc] \in ReadSteps)
            => (pool' = pool /\ ledger' = ledger /\ nextId' = nextId)
       /\ (pc[SeqProc] = "idle" /\ pc'[SeqProc] = "idle" /\ ledger' # ledger)
            => pool' = pool
       /\ LinkChanged => pc[SeqProc] \in {"reg_mark", "del_free", "unl_free"}]_vars

\* An update has just set to 'expired' a registration whose warranty number is
\* still marked used and linked to it.
C23_Witness ==
    /\ pc[SeqProc] = "idle"
    /\ \E r \in DOMAIN ledger :
          /\ resp[SeqProc] = UpdatedResponse(r)
          /\ ledger[r].status = "expired"
          /\ ledger[r].warrantyNumber \in DOMAIN pool
          /\ pool[ledger[r].warrantyNumber].isUsed
          /\ pool[ledger[r].warrantyNumber].registrationId = r

\* The registration satisfies every filter the query supplies.
SatisfiesQuery(doc, query) ==
    /\ query.productId # "" => doc.productId = query.productId
    /\ query.status # "" => doc.status = query.status
    /\ query.email # "" => RegExpTest(query.email, doc.email)
    /\ query.warrantyNumber # "" => RegExpTest(query.warrantyNumber, doc.warrantyNumber)
    /\ query.orderId # "" => RegExpTest(query.orderId, doc.orderId)
    /\ query.name # "" => \E f \in NameFields : RegExpTest(query.name, doc[f])
    /\ query.search # "" => \E f \in SearchFields : RegExpTest(query.search, doc[f])

\* C28: every registration the admin search returns satisfies every filter of the
\* query: productId and status exactly, email, warranty number, orderId, name and
\* search as case-insensitive substrings, name in one of the name parts, search in
\* one of email, name parts, warranty number, orderId and product.
C28_SearchResultsSatisfyEveryFilter ==
    \A query \in SearchQueries :
        LET registrations == SearchRun(ledger, query).data.registrations
        IN \A i \in 1..Len(registrations) : SatisfiesQuery(registrations[i].doc, query)

\* The outcome of the request `name` of the call in progress; "none" when the
\* request was not issued.
OutcomeOf(name) ==
    IF \E i \in 1..Len(svc.calls) : svc.calls[i][1] = name
    THEN svc.calls[CHOOSE i \in 1..Len(svc.calls) : svc.calls[i][1] = name][2]
    ELSE "none"

\* C24: whichever outbound calls fail, sendWarrantyConfirmation (both variants) and
\* createOrUpdateCustomer return an object with a success flag and never reject;
\* the flag is false when the sending calls, the contact call, or the create or
\* update call failed.
C24_ServicesReturnAResult ==
    svc.at = "done" =>
        /\ ~svc.result.raised
        /\ svc.result.success \in BOOLEAN
        /\ (svc.op = "campaign" /\ OutcomeOf("campaigns") = "fail"
                /\ OutcomeOf("messages") = "fail") => ~svc.result.success
        /\ (svc.op = "contact" /\ OutcomeOf("contacts") = "fail") => ~svc.result.success
        /\ (svc.op = "shopify" /\ "fail" \in {OutcomeOf("update"), OutcomeOf("create")})
                => ~svc.result.success

\* The campaign variant has returned after its three requests all failed.
C24_Witness ==
    /\ svc.op = "campaign" /\ svc.at = "done"
    /\ svc.calls = <<<<"contacts", "fail">>, <<"campaigns", "fail">>, <<"messages", "fail">>>>
    /\ svc.result = ServiceResult(FALSE, "failed")

\* C26: the campaign variant issues its requests in the order contact, campaign,
\* direct message; the campaign request is issued whether or not the contact
\* request failed; the direct message is attempted exactly when the campaign
\* request failed; the success flag is true exactly when the campaign or the
\* direct message succeeded.
C26_CampaignThenDirect ==
    svc.op = "campaign" =>
        /\ \A i \in 1..Len(svc.calls) :
              svc.calls[i][1] = <<"contacts", "campaigns", "messages">>[i]
        /\ svc.at = "done" =>
              /\ OutcomeOf("contacts") # "none"
              /\ OutcomeOf("campaigns") # "none"
              /\ OutcomeOf("messages") # "none" <=> OutcomeOf("campaigns") = "fail"
              /\ svc.result.success <=>
                    (OutcomeOf("campaigns") = "ok" \/ OutcomeOf("messages") = "ok")

\* The contact request failed, the campaign request failed and the direct message
\* went out.
C26_Witness ==
    /\ svc.op = "campaign" /\ svc.at = "done"
    /\ svc.calls = <<<<"contacts", "fail">>, <<"campaigns", "fail">>, <<"messages", "ok">>>>
    /\ svc.result.success

\* C27: createOrUpdateCustomer issues the create request only for an email that
\* has no customer in the directory, and the update request only for one that
\* has, also when the lookup request fails.
C27_NoCreateForExistingCustomer ==
    svc.op = "shopify" =>
        /\ svc.at = "create" => svc.email \notin shopify
        /\ svc.at = "update" => svc.email \in shopify

====
